---- MODULE Spec2Model ----
(***************************************************************************)
(* The gallery / lightbox controller of src/script-optimized.js: the       *)
(* module-level session (currentGallery, currentImageIndex), the cached    *)
(* DOM hooks, the handlers installed by initPortfolioHandlers and the      *)
(* asynchronous image-decode continuations of updateGalleryImage; and the  *)
(* frame schedulers of src/advanced-performance.js (scheduleRAF,           *)
(* scheduleRead / scheduleWrite) and the play-button handlers that both    *)
(* scripts install on the video cards.                                     *)
(***************************************************************************)
EXTENDS Integers, Sequences, FiniteSets, TLC

VARIABLES
  currentGallery,     \* let currentGallery: the active project's image list
  currentImageIndex,  \* let currentImageIndex (a JS number, possibly NaN)
  modalActive,        \* DOM.galleryModal.classList.contains('active')
  bodyOverflow,       \* document.body.style.overflow
  galleryTitle,       \* DOM.galleryTitle.textContent
  mainSrc,            \* DOM.galleryMainImage.getAttribute('src') || ''
  counterText,        \* DOM.galleryCounter.textContent
  thumbs,             \* children of DOM.galleryThumbnails: [src, active]
  decoding,           \* pending preImg.decode() promises: the nextSrc each closes over
  DOM,                \* the hooks cacheDOMElements found (non-null entries)
  hasDecode,          \* whether Image.prototype.decode exists in this browser
  pagehideArmed,      \* the {once: true} pagehide listener is still installed
  last,               \* the handler or function that ran last, and how it ended
  before,             \* currentImageIndex before the last handler ran
  runStart,           \* currentImageIndex before the current run of nextImage calls
  runLen,             \* how many nextImage calls in a row have just run
  readQueue,          \* let readQueue: callbacks passed to scheduleRead
  writeQueue,         \* let writeQueue: callbacks passed to scheduleWrite
  scheduled,          \* let scheduled
  layoutRequests,     \* animation frames scheduleLayout requested, not yet run
  layoutMade,         \* how many functions were passed to scheduleRead/Write
  layoutRan,          \* the functions the layout frames called, in call order
  videoPaused,        \* video.paused of each .video-player
  cardClasses,        \* classList of each .video-card
  playPending,        \* videos whose toggleVideoPlay play() promise is pending
  clickListeners,     \* click listeners of the play buttons, in registration order
  rafId,              \* let rafId: 0 for null, else the handle of the request
  rafCallbacks,       \* let rafCallbacks
  rafRequests,        \* animation frames scheduleRAF requested, not yet run
  rafMade,            \* how many callbacks were passed to scheduleRAF
  rafRan              \* the callbacks the frames called, in call order

galleryVars == <<currentGallery, currentImageIndex, modalActive, bodyOverflow,
                 galleryTitle, mainSrc, counterText, thumbs, decoding, DOM,
                 hasDecode, pagehideArmed, last, before, runStart, runLen>>

layoutVars == <<readQueue, writeQueue, scheduled, layoutRequests, layoutMade,
                layoutRan>>

videoVars == <<videoPaused, cardClasses, playPending, clickListeners>>

rafVars == <<rafId, rafCallbacks, rafRequests, rafMade, rafRan>>

perfVars == <<layoutVars, videoVars, rafVars>>

vars == <<galleryVars, perfVars>>

progVars == <<currentGallery, currentImageIndex, modalActive, bodyOverflow,
              galleryTitle, mainSrc, counterText, thumbs, decoding>>

envVars == <<DOM, hasDecode>>

----------------------------------------------------------------------------
(* Bounds *)

\* at most this many decode promises are in flight at once
MaxPending == 2

\* arguments of direct goToImage calls range over MinGoTo .. MaxGoTo
MaxGoTo == 3

MinGoTo == 0 - 1

\* at most this many functions are passed to a scheduler from outside a
\* frame
MaxCallbacks == 4

\* the page has this many video cards
NumVideos == 3

----------------------------------------------------------------------------
(* The catalog *)

portfolioData ==
  ("chassis-gallery" :> [title |-> "Chassis Gallery", images |->
      << "shell eco marathon chassis 2025.webp",
         "shell eco marathon chassis 2023.webp",
         "Formula Student chassis.webp",
         "Global chassis.webp",
         "Ever Chassis.webp" >>]) @@
  ("ever" :> [title |-> "EVER Monaco", images |->
      << "Photos/EVER/1.webp", "Photos/EVER/2.webp", "Photos/EVER/C.webp" >>]) @@
  ("solidworks-champion" :> [title |-> "SolidWorks Champion", images |->
      << "Photos/Solidwork Champion/1-optimized.jpg",
         "Photos/Solidwork Champion/2-optimized.jpg",
         "Photos/Solidwork Champion/3-optimized.jpg" >>])

\* property names every object literal inherits from Object.prototype:
\* portfolioData[k] is a truthy value without an images array for these
ObjectPrototypeKeys == {"constructor", "toString", "__proto__"}

\* JS values that reach the controller as a project key
Str(s) == [t |-> "string", v |-> s]

Null == [t |-> "null", v |-> ""]

Num(s) == [t |-> "number", v |-> s]

\* JS truthiness of a key value
Truthy(x) ==
  CASE x.t = "string" -> x.v # ""
    [] x.t = "number" -> x.v \notin {"0", "NaN"}
    [] OTHER -> FALSE

\* a lookup that falls back to a default project for an unknown key
LookupFallback(k) ==
  IF k \in DOMAIN portfolioData
    THEN [kind |-> "entry", title |-> portfolioData[k].title,
          images |-> portfolioData[k].images]
    ELSE [kind |-> "entry", title |-> portfolioData["ever"].title,
          images |-> portfolioData["ever"].images]

\* portfolioData[projectKey] for a string key
Lookup(k) ==
  IF k \in DOMAIN portfolioData
    THEN [kind |-> "entry", title |-> portfolioData[k].title,
          images |-> portfolioData[k].images]
    ELSE IF k \in ObjectPrototypeKeys
      THEN [kind |-> "inherited", title |-> "", images |-> << >>]
      ELSE [kind |-> "undefined", title |-> "", images |-> << >>]

\* the data-project attributes of the cards on the page (getAttribute
\* returns a string or null)
CardKeys == {Str("ever"), Str("solidworks-champion"),
             Str("does-not-exist"), Str("constructor"), Null}

\* arguments of direct openGallery calls
CallKeys == {Str("ever"), Str("solidworks-champion"), Str("does-not-exist"),
             Str("constructor"), Str(""), Num("42")}

----------------------------------------------------------------------------
(* The rendering surface *)

Hooks == {"galleryModal", "galleryTitle", "galleryMainImage", "galleryCounter",
          "galleryThumbnails", "galleryClose", "galleryNext", "galleryPrev"}

\* the number x % 0 evaluates to
NaN == -99

\* the value of currentGallery[i] when i is no index of the array
Undefined == "<undefined>"

\* String(v), as setAttribute and the src setter apply it
ToAttr(v) == IF v = Undefined THEN "undefined" ELSE v

\* a % n of JavaScript: the remainder has the sign of the dividend
JsRem(a, n) ==
  IF a = NaN \/ n = 0 THEN NaN
  ELSE IF a >= 0 THEN a % n ELSE 0 - ((0 - a) % n)

\* a + b of JavaScript numbers
JsAdd(a, b) == IF a = NaN \/ b = NaN THEN NaN ELSE a + b

\* currentGallery[currentImageIndex]
ImageAt(g, i) == IF i # NaN /\ i >= 0 /\ i < Len(g) THEN g[i + 1] ELSE Undefined

\* the counter without the + 1: it shows the zero-based index
CounterTextZeroBased(i, n) ==
  (IF i = NaN THEN "NaN" ELSE ToString(i)) \o " / " \o ToString(n)

\* `${currentImageIndex + 1} / ${currentGallery.length}`
CounterText(i, n) ==
  (IF i = NaN THEN "NaN" ELSE ToString(i + 1)) \o " / " \o ToString(n)

\* thumbnails.forEach(thumb => thumb.classList.toggle('active', index === currentImageIndex))
ToggleThumbnails(th, i) ==
  [k \in 1..Len(th) |-> [src |-> th[k].src, active |-> (k - 1 = i)]]

\* createThumbnails that appends to the strip without emptying it first
CreateThumbnailsAppend(g) ==
  thumbs \o [k \in 1..Len(g) |-> [src |-> g[k], active |-> FALSE]]

\* createThumbnails: one fresh img.gallery-thumbnail per image
CreateThumbnails(g) ==
  [k \in 1..Len(g) |-> [src |-> g[k], active |-> FALSE]]

\* updateGalleryImage that assigns the new source to the visible element at
\* once and lets the decode follow
UpdateGalleryImageEager(g, i, src, ctr, dec, th) ==
  LET nextSrc == ImageAt(g, i)
      text == CounterText(i, Len(g))
  IN IF src = nextSrc
       THEN [src |-> src, ctr |-> text, dec |-> dec,
             th |-> ToggleThumbnails(th, i), threw |-> FALSE]
     ELSE IF hasDecode
       THEN [src |-> ToAttr(nextSrc), ctr |-> ctr,
             dec |-> Append(dec, ToAttr(nextSrc)),
             th |-> ToggleThumbnails(th, i), threw |-> FALSE]
       ELSE [src |-> ToAttr(nextSrc), ctr |-> text, dec |-> dec,
             th |-> ToggleThumbnails(th, i), threw |-> FALSE]

\* updateGalleryImage without the comparison with the current src
\* attribute: every call reloads the image
UpdateGalleryImageNoShortcut(g, i, src, ctr, dec, th) ==
  LET nextSrc == ImageAt(g, i)
      text == CounterText(i, Len(g))
  IN IF hasDecode
       THEN [src |-> src, ctr |-> ctr, dec |-> Append(dec, ToAttr(nextSrc)),
             th |-> ToggleThumbnails(th, i), threw |-> FALSE]
       ELSE [src |-> ToAttr(nextSrc), ctr |-> text, dec |-> dec,
             th |-> ToggleThumbnails(th, i), threw |-> FALSE]

\* updateGalleryImage, as a function of the session it reads and the view
\* it rewrites; threw is TRUE when it ends in a TypeError on a null hook
UpdateGalleryImage(g, i, src, ctr, dec, th) ==
  IF "galleryMainImage" \notin DOM
    THEN [src |-> src, ctr |-> ctr, dec |-> dec, th |-> th, threw |-> FALSE]
    ELSE
      LET nextSrc == ImageAt(g, i)
          text == CounterText(i, Len(g))
          hasCounter == "galleryCounter" \in DOM
          img == IF src = nextSrc
                   THEN [src |-> src, ctr |-> IF hasCounter THEN text ELSE ctr,
                         dec |-> dec, threw |-> ~hasCounter]
                 ELSE IF hasDecode
                   THEN [src |-> src, ctr |-> ctr,
                         dec |-> Append(dec, ToAttr(nextSrc)), threw |-> FALSE]
                   ELSE [src |-> ToAttr(nextSrc),
                         ctr |-> IF hasCounter THEN text ELSE ctr,
                         dec |-> dec, threw |-> ~hasCounter]
      IN IF img.threw
           THEN [src |-> img.src, ctr |-> img.ctr, dec |-> img.dec, th |-> th,
                 threw |-> TRUE]
         ELSE IF "galleryThumbnails" \notin DOM
           THEN [src |-> img.src, ctr |-> img.ctr, dec |-> img.dec, th |-> th,
                 threw |-> TRUE]
           ELSE [src |-> img.src, ctr |-> img.ctr, dec |-> img.dec,
                 th |-> ToggleThumbnails(th, i), threw |-> FALSE]

\* next that stops at the last image instead of wrapping
NextIndexClamp(i, n) == IF JsAdd(i, 1) >= n THEN i ELSE JsAdd(i, 1)

\* next that wraps one image too late
NextIndexWrapsLate(i, n) == JsRem(JsAdd(i, 1), n + 1)

\* (currentImageIndex + 1) % currentGallery.length
NextIndex(i, n) == JsRem(JsAdd(i, 1), n)

\* prev without the + length: the remainder of -1 is -1
PrevIndexNoWrap(i, n) == JsRem(JsAdd(i, 0 - 1), n)

\* prev that stops at the first image instead of wrapping
PrevIndexClamp(i, n) == IF i = 0 THEN 0 ELSE JsAdd(i, 0 - 1)

\* (currentImageIndex - 1 + currentGallery.length) % currentGallery.length
PrevIndex(i, n) == JsRem(JsAdd(JsAdd(i, 0 - 1), n), n)

----------------------------------------------------------------------------
(* The functions of the controller; op names the handler that called *)

NextOps == {"click-next", "key-ArrowRight", "nextImage"}

PrevOps == {"click-prev", "key-ArrowLeft", "prevImage"}

\* logged: the console.error messages of the handler; threw: it ended in
\* an uncaught TypeError; wasActive: the lightbox was open when it began;
\* afterNext: the handler before it was a nextImage call
Ran(op, logged, threw) ==
  /\ last' = [op |-> op, logged |-> logged, threw |-> threw,
               wasActive |-> modalActive, afterNext |-> last.op \in NextOps]
  /\ before' = currentImageIndex
  /\ IF op \in NextOps
       THEN IF runLen >= 1 /\ runLen < Len(currentGallery)
              THEN UNCHANGED runStart /\ runLen' = runLen + 1
              ELSE runStart' = currentImageIndex /\ runLen' = 1
       ELSE runStart' = 0 /\ runLen' = 0
  /\ UNCHANGED perfVars

\* a handler that returns without touching the session or the view
NoEffect(op, logged, threw) ==
  /\ UNCHANGED progVars
  /\ Ran(op, logged, threw)

\* the view after updateGalleryImage ran on session (g, i)
Render(g, i, op) ==
  LET r == UpdateGalleryImage(g, i, mainSrc, counterText, decoding, thumbs)
  IN /\ Len(r.dec) <= MaxPending
     /\ mainSrc' = r.src
     /\ counterText' = r.ctr
     /\ decoding' = r.dec
     /\ thumbs' = r.th
     /\ Ran(op, << >>, r.threw)

\* the validation at the head of openGallery: the message it logs before
\* returning, or "" when the key passes
ValidationError(projectKey) ==
  IF ~Truthy(projectKey) \/ projectKey.t # "string"
    THEN "Invalid project key:"
  ELSE LET project == Lookup(projectKey.v) IN
    IF project.kind = "undefined"
      THEN "Project not found:"
    ELSE IF project.kind = "inherited" \/ Len(project.images) = 0
      THEN "Project has no images:"
    ELSE IF "galleryModal" \notin DOM \/ "galleryTitle" \notin DOM
      THEN "Gallery modal elements not found"
    ELSE ""

\* the rest of openGallery, for a project that passed the validation
OpenProject(project, op) ==
  LET r == UpdateGalleryImage(project.images, 0, mainSrc, counterText,
                              decoding, thumbs)
      \* createThumbnails runs only when updateGalleryImage returned
      strip == "galleryThumbnails" \in DOM
  IN /\ Len(r.dec) <= MaxPending
     /\ currentGallery' = project.images
     /\ currentImageIndex' = 0
     /\ galleryTitle' = project.title
     /\ modalActive' = TRUE
     /\ bodyOverflow' = "hidden"
     /\ mainSrc' = r.src
     /\ counterText' = r.ctr
     /\ decoding' = r.dec
     /\ thumbs' = IF ~r.threw /\ strip
                    THEN CreateThumbnails(project.images) ELSE r.th
     /\ Ran(op, << >>, r.threw \/ ~strip)

\* openGallery that resets the session before it validates the key
openGalleryResetsFirst(projectKey, op) ==
  IF ValidationError(projectKey) # ""
    THEN /\ currentGallery' = << >>
         /\ currentImageIndex' = 0
         /\ UNCHANGED <<modalActive, bodyOverflow, galleryTitle, mainSrc,
                        counterText, thumbs, decoding>>
         /\ Ran(op, <<ValidationError(projectKey)>>, FALSE)
    ELSE OpenProject(Lookup(projectKey.v), op)

openGallery(projectKey, op) ==
  IF ValidationError(projectKey) # ""
    THEN NoEffect(op, <<ValidationError(projectKey)>>, FALSE)
    ELSE OpenProject(Lookup(projectKey.v), op)

goToImage(index, op) ==
  /\ currentImageIndex' = index
  /\ UNCHANGED <<currentGallery, modalActive, bodyOverflow, galleryTitle>>
  /\ Render(currentGallery, index, op)

nextImage(op) ==
  LET i == NextIndex(currentImageIndex, Len(currentGallery))
  IN /\ currentImageIndex' = i
     /\ UNCHANGED <<currentGallery, modalActive, bodyOverflow, galleryTitle>>
     /\ Render(currentGallery, i, op)

prevImage(op) ==
  LET i == PrevIndex(currentImageIndex, Len(currentGallery))
  IN /\ currentImageIndex' = i
     /\ UNCHANGED <<currentGallery, modalActive, bodyOverflow, galleryTitle>>
     /\ Render(currentGallery, i, op)

\* closeGallery without the reset of document.body.style.overflow
closeGalleryKeepsLock(op, caught) ==
  /\ modalActive' = FALSE
  /\ UNCHANGED <<currentGallery, currentImageIndex, galleryTitle, bodyOverflow,
                 mainSrc, counterText, thumbs, decoding>>
  /\ Ran(op, << >>, FALSE)

\* caught is TRUE for the call inside try { } catch(e){}
closeGallery(op, caught) ==
  IF "galleryModal" \notin DOM
    THEN NoEffect(op, << >>, ~caught)
    ELSE /\ modalActive' = FALSE
         /\ bodyOverflow' = ""
         /\ UNCHANGED <<currentGallery, currentImageIndex, galleryTitle,
                        mainSrc, counterText, thumbs, decoding>>
         /\ Ran(op, << >>, FALSE)

----------------------------------------------------------------------------
(* The handlers initPortfolioHandlers installs *)

\* the delegated click handler without its !classList.contains('active') test
ClickProjectUnguarded(attr) ==
  /\ UNCHANGED <<envVars, pagehideArmed>>
  /\ IF Truthy(attr) /\ Lookup(attr.v).kind # "undefined"
       THEN openGallery(attr, "click-project")
       ELSE NoEffect("click-project", << >>, FALSE)

\* document click on an element inside a .portfolio-project card
ClickProject(attr) ==
  /\ UNCHANGED <<envVars, pagehideArmed>>
  /\ IF "galleryModal" \notin DOM
       THEN NoEffect("click-project", << >>, TRUE)
     ELSE IF ~modalActive /\ Truthy(attr) /\ Lookup(attr.v).kind # "undefined"
       THEN openGallery(attr, "click-project")
       ELSE NoEffect("click-project", << >>, FALSE)

ClickClose ==
  /\ "galleryClose" \in DOM
  /\ UNCHANGED <<envVars, pagehideArmed>>
  /\ closeGallery("click-close", FALSE)

ClickNext ==
  /\ "galleryNext" \in DOM
  /\ UNCHANGED <<envVars, pagehideArmed>>
  /\ nextImage("click-next")

ClickPrev ==
  /\ "galleryPrev" \in DOM
  /\ UNCHANGED <<envVars, pagehideArmed>>
  /\ prevImage("click-prev")

\* click whose target is the modal element itself
ClickBackdrop ==
  /\ "galleryModal" \in DOM
  /\ UNCHANGED <<envVars, pagehideArmed>>
  /\ closeGallery("click-backdrop", FALSE)

Keys == {"Escape", "ArrowLeft", "ArrowRight", "Enter"}

\* the keydown handler without its test of the 'active' class
KeyDownUnguarded(key) ==
  /\ UNCHANGED <<envVars, pagehideArmed>>
  /\ CASE key = "Escape" -> closeGallery("key-Escape", FALSE)
       [] key = "ArrowLeft" -> prevImage("key-ArrowLeft")
       [] key = "ArrowRight" -> nextImage("key-ArrowRight")
       [] OTHER -> NoEffect("ignored-" \o key, << >>, FALSE)

KeyDown(key) ==
  /\ UNCHANGED <<envVars, pagehideArmed>>
  /\ IF "galleryModal" \notin DOM \/ ~modalActive
       THEN NoEffect("ignored-" \o key, << >>, FALSE)
     ELSE CASE key = "Escape" -> closeGallery("key-Escape", FALSE)
            [] key = "ArrowLeft" -> prevImage("key-ArrowLeft")
            [] key = "ArrowRight" -> nextImage("key-ArrowRight")
            [] OTHER -> NoEffect("ignored-" \o key, << >>, FALSE)

\* img.onclick = () => goToImage(index) of the k-th thumbnail
ClickThumbnail(k) ==
  /\ k \in 1..Len(thumbs)
  /\ UNCHANGED <<envVars, pagehideArmed>>
  /\ goToImage(k - 1, "click-thumbnail")

\* window pagehide, { once: true }; the page may come back from the
\* back/forward cache afterwards
PageHide ==
  /\ pagehideArmed
  /\ pagehideArmed' = FALSE
  /\ UNCHANGED envVars
  /\ closeGallery("pagehide", TRUE)

\* a continuation that checks it is still the current request and drops
\* its image otherwise
DecodeSettleCancelsStale(k, outcome) ==
  /\ k \in 1..Len(decoding)
  /\ UNCHANGED <<envVars, pagehideArmed>>
  /\ mainSrc' = IF decoding[k] =
                     ToAttr(ImageAt(currentGallery, currentImageIndex))
                  THEN decoding[k] ELSE mainSrc
  /\ counterText' = IF "galleryCounter" \in DOM
                      THEN CounterText(currentImageIndex, Len(currentGallery))
                      ELSE counterText
  /\ decoding' = [j \in 1..(Len(decoding) - 1) |->
                    IF j < k THEN decoding[j] ELSE decoding[j + 1]]
  /\ UNCHANGED <<currentGallery, currentImageIndex, modalActive, bodyOverflow,
                 galleryTitle, thumbs>>
  /\ last' = [op |-> "decode-" \o outcome, logged |-> << >>,
               threw |-> "galleryCounter" \notin DOM,
               wasActive |-> modalActive, afterNext |-> FALSE]
  /\ UNCHANGED <<before, runStart, runLen, perfVars>>

\* preImg.decode().then(done) without the catch: a rejected decode swaps
\* nothing and ends as an unhandled rejection
DecodeSettleNoCatch(k, outcome) ==
  /\ k \in 1..Len(decoding)
  /\ UNCHANGED <<envVars, pagehideArmed>>
  /\ mainSrc' = IF outcome = "resolved" THEN decoding[k] ELSE mainSrc
  /\ counterText' = IF outcome = "resolved" /\ "galleryCounter" \in DOM
                      THEN CounterText(currentImageIndex, Len(currentGallery))
                      ELSE counterText
  /\ decoding' = [j \in 1..(Len(decoding) - 1) |->
                    IF j < k THEN decoding[j] ELSE decoding[j + 1]]
  /\ UNCHANGED <<currentGallery, currentImageIndex, modalActive, bodyOverflow,
                 galleryTitle, thumbs>>
  /\ last' = [op |-> "decode-" \o outcome, logged |-> << >>,
               threw |-> outcome = "rejected" \/ "galleryCounter" \notin DOM,
               wasActive |-> modalActive, afterNext |-> FALSE]
  /\ UNCHANGED <<before, runStart, runLen, perfVars>>

\* a continuation that writes the counter for the position of its own
\* image instead of reading currentImageIndex when it runs
DecodeSettleCapturedIndex(k, outcome) ==
  /\ k \in 1..Len(decoding)
  /\ UNCHANGED <<envVars, pagehideArmed>>
  /\ mainSrc' = decoding[k]
  /\ counterText' =
       LET own == {j \in 1..Len(currentGallery) :
                     currentGallery[j] = decoding[k]}
       IN IF own = {}
            THEN CounterText(currentImageIndex, Len(currentGallery))
            ELSE CounterText((CHOOSE j \in own : TRUE) - 1,
                             Len(currentGallery))
  /\ decoding' = [j \in 1..(Len(decoding) - 1) |->
                    IF j < k THEN decoding[j] ELSE decoding[j + 1]]
  /\ UNCHANGED <<currentGallery, currentImageIndex, modalActive, bodyOverflow,
                 galleryTitle, thumbs>>
  /\ last' = [op |-> "decode-" \o outcome, logged |-> << >>,
               threw |-> FALSE,
               wasActive |-> modalActive, afterNext |-> FALSE]
  /\ UNCHANGED <<before, runStart, runLen, perfVars>>

\* the k-th pending decode settles and its continuation `done` runs:
\* preImg.decode().then(done).catch(() => done())
DecodeSettle(k, outcome) ==
  /\ k \in 1..Len(decoding)
  /\ UNCHANGED <<envVars, pagehideArmed>>
  /\ mainSrc' = decoding[k]
  /\ counterText' = IF "galleryCounter" \in DOM
                      THEN CounterText(currentImageIndex, Len(currentGallery))
                      ELSE counterText
  /\ decoding' = [j \in 1..(Len(decoding) - 1) |->
                    IF j < k THEN decoding[j] ELSE decoding[j + 1]]
  /\ UNCHANGED <<currentGallery, currentImageIndex, modalActive, bodyOverflow,
                 galleryTitle, thumbs>>
  /\ last' = [op |-> "decode-" \o outcome, logged |-> << >>,
               threw |-> "galleryCounter" \notin DOM,
               wasActive |-> modalActive, afterNext |-> FALSE]
  /\ UNCHANGED <<before, runStart, runLen, perfVars>>

----------------------------------------------------------------------------
(* Direct calls of the global functions *)

CallOpenGallery(key) ==
  /\ UNCHANGED <<envVars, pagehideArmed>>
  /\ openGallery(key, "openGallery")

CallGoToImage(i) ==
  /\ UNCHANGED <<envVars, pagehideArmed>>
  /\ goToImage(i, "goToImage")

CallNextImage ==
  /\ UNCHANGED <<envVars, pagehideArmed>>
  /\ nextImage("nextImage")

CallPrevImage ==
  /\ UNCHANGED <<envVars, pagehideArmed>>
  /\ prevImage("prevImage")

CallCloseGallery ==
  /\ UNCHANGED <<envVars, pagehideArmed>>
  /\ closeGallery("closeGallery", FALSE)

----------------------------------------------------------------------------
(* Layout batching: scheduleLayout, scheduleRead, scheduleWrite *)

\* what a scheduled function does when it is called: nothing that concerns
\* the scheduler, or a call of scheduleRead or of scheduleWrite
Kinds == {"plain", "read", "write"}

\* the scheduler's variables as one record, for the calls made while a
\* frame is running
LayoutState ==
  [rq |-> readQueue, wq |-> writeQueue, scheduled |-> scheduled,
   requests |-> layoutRequests, made |-> layoutMade, ran |-> layoutRan]

ScheduleLayout(s) ==
  IF s.scheduled THEN s
  ELSE [s EXCEPT !.scheduled = TRUE, !.requests = s.requests + 1]

\* window.scheduleRead(fn), fn being the next function made, of this kind
ScheduleRead(s, kind) ==
  ScheduleLayout([s EXCEPT !.rq = Append(s.rq, [id |-> s.made + 1,
                                                   kind |-> kind]),
                           !.made = s.made + 1])

ScheduleWrite(s, kind) ==
  ScheduleLayout([s EXCEPT !.wq = Append(s.wq, [id |-> s.made + 1,
                                                   kind |-> kind]),
                           !.made = s.made + 1])

\* fn(): the call is recorded, and the function's own call of the
\* scheduler, if it makes one, passes a plain function
CallFn(s, fn) ==
  LET t == [s EXCEPT !.ran = Append(s.ran, fn.id)]
  IN CASE fn.kind = "read" -> ScheduleRead(t, "plain")
       [] fn.kind = "write" -> ScheduleWrite(t, "plain")
       [] OTHER -> t

\* queue.forEach(fn => fn()): forEach visits the elements the array had
\* when it was called, not those pushed while it runs
RECURSIVE ForEachCall(_, _)
ForEachCall(s, fns) ==
  IF fns = << >> THEN s
  ELSE ForEachCall(CallFn(s, Head(fns)), Tail(fns))

\* the callback scheduleLayout passes to requestAnimationFrame
LayoutFrameResult(s) ==
  LET afterReads == [ForEachCall(s, s.rq) EXCEPT !.rq = << >>]
      afterWrites == [ForEachCall(afterReads, afterReads.wq)
                        EXCEPT !.wq = << >>]
  IN [afterWrites EXCEPT !.scheduled = FALSE, !.requests = s.requests - 1]

SetLayout(s) ==
  /\ readQueue' = s.rq
  /\ writeQueue' = s.wq
  /\ scheduled' = s.scheduled
  /\ layoutRequests' = s.requests
  /\ layoutMade' = s.made
  /\ layoutRan' = s.ran
  /\ UNCHANGED <<galleryVars, videoVars, rafVars>>

CallScheduleRead(kind) ==
  /\ layoutMade < MaxCallbacks
  /\ SetLayout(ScheduleRead(LayoutState, kind))

CallScheduleWrite(kind) ==
  /\ layoutMade < MaxCallbacks
  /\ SetLayout(ScheduleWrite(LayoutState, kind))

\* the browser runs a requested animation frame
LayoutFrame ==
  /\ layoutRequests > 0
  /\ SetLayout(LayoutFrameResult(LayoutState))

InitLayout ==
  /\ readQueue = << >>
  /\ writeQueue = << >>
  /\ scheduled = FALSE
  /\ layoutRequests = 0
  /\ layoutMade = 0
  /\ layoutRan = << >>

----------------------------------------------------------------------------
(* The video cards: initVideoControls of both scripts, toggleVideoPlay *)

\* the .video-card elements of the page, by index
Videos == 1..NumVideos

\* video.pause(): the pending play() promise is rejected, and the catch
\* of toggleVideoPlay only logs
Pause(vs, v) ==
  [vs EXCEPT !.paused[v] = TRUE, !.pending = vs.pending \ {v}]

\* the play-button listener of script-optimized.js
ScriptClick(vs, v) ==
  IF vs.paused[v]
    THEN [vs EXCEPT !.paused[v] = FALSE,
                    !.classes[v] = vs.classes[v] \cup {"auto-playing"}]
    ELSE [Pause(vs, v) EXCEPT !.classes[v] = vs.classes[v] \ {"auto-playing"}]

\* toggleVideoPlay(video, card), called by the play-button listener of
\* advanced-performance.js
toggleVideoPlay(vs, v) ==
  IF vs.paused[v]
    THEN [paused |-> [u \in Videos |-> u # v],
          classes |-> [u \in Videos |->
                        IF u = v THEN vs.classes[u]
                        ELSE vs.classes[u] \ {"auto-playing", "manual-control"}],
          pending |-> {v}]
    ELSE [Pause(vs, v) EXCEPT
            !.classes[v] = vs.classes[v] \ {"auto-playing", "manual-control"}]

\* one listener of a play button
RunListener(vs, v, listener) ==
  IF listener = "script-optimized" THEN ScriptClick(vs, v)
  ELSE toggleVideoPlay(vs, v)

\* the browser calls the listeners of the clicked button in the order in
\* which they were added; stopPropagation does not stop the others
RECURSIVE Dispatch(_, _, _)
Dispatch(vs, v, listeners) ==
  IF listeners = << >> THEN vs
  ELSE Dispatch(RunListener(vs, v, Head(listeners)), v, Tail(listeners))

VideoState ==
  [paused |-> videoPaused, classes |-> cardClasses, pending |-> playPending]

SetVideo(vs) ==
  /\ videoPaused' = vs.paused
  /\ cardClasses' = vs.classes
  /\ playPending' = vs.pending
  /\ UNCHANGED <<galleryVars, layoutVars, rafVars>>

\* initVideoControls of script-optimized.js, run once from init: the first
\* video is started and every play button gets a listener
InitVideoControlsScript ==
  /\ \A k \in 1..Len(clickListeners) : clickListeners[k] # "script-optimized"
  /\ clickListeners' = Append(clickListeners, "script-optimized")
  /\ SetVideo([VideoState EXCEPT
                 !.paused[1] = FALSE,
                 !.classes[1] = cardClasses[1] \cup {"auto-playing"}])

\* initVideoControls of advanced-performance.js, guarded by
\* state.initialized
InitVideoControlsAdvanced ==
  /\ \A k \in 1..Len(clickListeners) : clickListeners[k] # "advanced"
  /\ clickListeners' = Append(clickListeners, "advanced")
  /\ SetVideo(VideoState)

\* a click on the play button of card v
ClickPlayButton(v) ==
  /\ clickListeners # << >>
  /\ UNCHANGED clickListeners
  /\ SetVideo(Dispatch(VideoState, v, clickListeners))

\* the IntersectionObserver callback of script-optimized.js for card v
Intersect(v, visible) ==
  /\ \E k \in 1..Len(clickListeners) : clickListeners[k] = "script-optimized"
  /\ UNCHANGED clickListeners
  /\ SetVideo(IF visible
                THEN [VideoState EXCEPT
                        !.paused[v] = FALSE,
                        !.classes[v] = cardClasses[v] \cup {"auto-playing"}]
                ELSE [Pause(VideoState, v) EXCEPT
                        !.classes[v] = cardClasses[v] \ {"auto-playing"}])

\* the play() promise of toggleVideoPlay resolves
PlayResolves(v) ==
  /\ v \in playPending
  /\ UNCHANGED clickListeners
  /\ SetVideo([VideoState EXCEPT
                 !.classes[v] = cardClasses[v] \cup
                                  {"auto-playing", "manual-control"},
                 !.pending = playPending \ {v}])

InitVideo ==
  /\ videoPaused = [v \in Videos |-> TRUE]
  /\ cardClasses = [v \in Videos |-> {}]
  /\ playPending = {}
  /\ clickListeners = << >>

----------------------------------------------------------------------------
(* scheduleRAF *)

\* what a callback does when it is called: nothing that concerns the
\* scheduler, or a call of scheduleRAF
RafKinds == {"plain", "raf"}

RafState ==
  [id |-> rafId, cbs |-> rafCallbacks, requests |-> rafRequests,
   made |-> rafMade, ran |-> rafRan]

\* scheduleRAF(callback): the callback is the next one made; nested tells
\* that the call comes from a running callback
ScheduleRAF(s, kind, nested) ==
  LET t == [s EXCEPT !.cbs = Append(s.cbs, [id |-> s.made + 1, kind |-> kind,
                                             nested |-> nested]),
                     !.made = s.made + 1]
  IN IF t.id = 0
       THEN [t EXCEPT !.id = 1, !.requests = t.requests + 1]
       ELSE t

\* cb()
CallRafCallback(s, cb) ==
  LET t == [s EXCEPT !.ran = Append(s.ran, cb)]
  IN IF cb.kind = "raf" THEN ScheduleRAF(t, "plain", TRUE) ELSE t

\* callbacks.forEach(cb => cb())
RECURSIVE ForEachRaf(_, _)
ForEachRaf(s, cbs) ==
  IF cbs = << >> THEN s
  ELSE ForEachRaf(CallRafCallback(s, Head(cbs)), Tail(cbs))

\* a flush that iterates rafCallbacks itself and resets it and rafId only
\* after the callbacks have run
RafFrameResultResetsLate(s) ==
  [ForEachRaf([s EXCEPT !.requests = s.requests - 1], s.cbs)
     EXCEPT !.cbs = << >>, !.id = 0]

\* the callback scheduleRAF passes to requestAnimationFrame: copy the
\* queue, reset it and rafId, then call the copies
RafFrameResult(s) ==
  ForEachRaf([s EXCEPT !.cbs = << >>, !.id = 0,
                       !.requests = s.requests - 1], s.cbs)

SetRaf(s) ==
  /\ rafId' = s.id
  /\ rafCallbacks' = s.cbs
  /\ rafRequests' = s.requests
  /\ rafMade' = s.made
  /\ rafRan' = s.ran
  /\ UNCHANGED <<galleryVars, layoutVars, videoVars>>

CallScheduleRAF(kind) ==
  /\ rafMade < MaxCallbacks
  /\ SetRaf(ScheduleRAF(RafState, kind, FALSE))

\* the browser runs a requested animation frame
RafFrame ==
  /\ rafRequests > 0
  /\ SetRaf(RafFrameResult(RafState))

InitRaf ==
  /\ rafId = 0
  /\ rafCallbacks = << >>
  /\ rafRequests = 0
  /\ rafMade = 0
  /\ rafRan = << >>

InitPerf == InitLayout /\ InitVideo /\ InitRaf

----------------------------------------------------------------------------
(* Specifications *)

\* the state after the script ran on a page that has every hook
Init ==
  /\ currentGallery = << >>
  /\ currentImageIndex = 0
  /\ modalActive = FALSE
  /\ bodyOverflow = ""
  /\ galleryTitle = ""
  /\ mainSrc = ""
  /\ counterText = ""
  /\ thumbs = << >>
  /\ decoding = << >>
  /\ DOM = Hooks
  /\ hasDecode \in BOOLEAN
  /\ pagehideArmed = TRUE
  /\ last = [op |-> "init", logged |-> << >>, threw |-> FALSE,
             wasActive |-> FALSE, afterNext |-> FALSE]
  /\ before = 0
  /\ runStart = 0
  /\ runLen = 0
  /\ InitPerf

\* the events the page delivers
Next ==
  \/ \E attr \in CardKeys : ClickProject(attr)
  \/ ClickClose
  \/ ClickNext
  \/ ClickPrev
  \/ ClickBackdrop
  \/ \E key \in Keys : KeyDown(key)
  \/ \E k \in 1..Len(thumbs) : ClickThumbnail(k)
  \/ PageHide
  \/ \E k \in 1..Len(decoding), outcome \in {"resolved", "rejected"} :
       DecodeSettle(k, outcome)

Spec == Init /\ [][Next]_vars

\* direct calls of the global functions, and the decodes they start
NextApi ==
  \/ \E k \in 1..Len(decoding), outcome \in {"resolved", "rejected"} :
       DecodeSettle(k, outcome)
  \/ \E key \in CallKeys : CallOpenGallery(key)
  \/ \E i \in MinGoTo..MaxGoTo : CallGoToImage(i)
  \/ CallNextImage
  \/ CallPrevImage
  \/ CallCloseGallery

SpecApi == Init /\ [][NextApi]_vars

\* the page's events on a browser whose decodes settle in the order in
\* which they were started: only the oldest pending decode can settle
NextInOrder ==
  \/ \E attr \in CardKeys : ClickProject(attr)
  \/ ClickClose
  \/ ClickNext
  \/ ClickPrev
  \/ ClickBackdrop
  \/ \E key \in Keys : KeyDown(key)
  \/ \E k \in 1..Len(thumbs) : ClickThumbnail(k)
  \/ PageHide
  \/ \E outcome \in {"resolved", "rejected"} : DecodeSettle(1, outcome)

SpecInOrder == Init /\ [][NextInOrder]_vars

\* calls of window.scheduleRead / window.scheduleWrite and the frames they
\* request
NextLayout ==
  \/ \E kind \in Kinds : CallScheduleRead(kind)
  \/ \E kind \in Kinds : CallScheduleWrite(kind)
  \/ LayoutFrame

SpecLayout == Init /\ [][NextLayout]_vars

\* the two scripts initialise the video cards in either order; clicks,
\* intersection changes and play promises follow
NextVideo ==
  \/ InitVideoControlsScript
  \/ InitVideoControlsAdvanced
  \/ \E v \in Videos : ClickPlayButton(v)
  \/ \E v \in Videos, visible \in BOOLEAN : Intersect(v, visible)
  \/ \E v \in Videos : PlayResolves(v)

SpecVideo == Init /\ [][NextVideo]_vars

\* calls of scheduleRAF and the frames they request; the browser runs
\* every requested frame
NextRaf ==
  \/ \E kind \in RafKinds : CallScheduleRAF(kind)
  \/ RafFrame

SpecRaf == Init /\ [][NextRaf]_vars /\ WF_vars(RafFrame)

\* the elements of the lightbox that cacheDOMElements looks up and the
\* gallery functions render into
SurfaceHooks == {"galleryModal", "galleryTitle", "galleryMainImage",
                 "galleryCounter", "galleryThumbnails"}

\* a page on which getElementById returned null for one of them
InitSurface ==
  /\ currentGallery = << >>
  /\ currentImageIndex = 0
  /\ modalActive = FALSE
  /\ bodyOverflow = ""
  /\ galleryTitle = ""
  /\ mainSrc = ""
  /\ counterText = ""
  /\ thumbs = << >>
  /\ decoding = << >>
  /\ \E h \in SurfaceHooks : DOM = Hooks \ {h}
  /\ hasDecode \in BOOLEAN
  /\ pagehideArmed = TRUE
  /\ last = [op |-> "init", logged |-> << >>, threw |-> FALSE,
             wasActive |-> FALSE, afterNext |-> FALSE]
  /\ before = 0
  /\ runStart = 0
  /\ runLen = 0
  /\ InitPerf

SpecSurface == InitSurface /\ [][Next]_vars

----------------------------------------------------------------------------
(* Properties *)

OpenOps == {"click-project", "openGallery"}

DecodeOps == {"decode-resolved", "decode-rejected"}

CloseOps == {"click-close", "key-Escape", "click-backdrop", "pagehide",
             "closeGallery"}

\* the project keys of the catalog among the arguments of openGallery
IsCatalogKey(key) == key.t = "string" /\ key.v \in DOMAIN portfolioData

\* "1 / N" for a project's image list
FirstOf(images) == "1 / " \o ToString(Len(images))

\* C1 as stated: from Closed, openGallery(id) for a catalog id with N >= 1
\* images leaves the lightbox open on that project's image list at index 0
\* with the counter reading "1 / N" when it returns.
C1_OpenShowsCounterAtOnce ==
  [][\A key \in CallKeys :
       (~modalActive /\ IsCatalogKey(key) /\ CallOpenGallery(key)) =>
         /\ modalActive'
         /\ currentGallery' = portfolioData[key.v].images
         /\ currentImageIndex' = 0
         /\ counterText' = FirstOf(portfolioData[key.v].images)]_vars

\* C1 as amended: from Closed, openGallery(id) for a catalog id with N >= 1
\* images leaves the lightbox open on that project's image list at index 0;
\* the counter reads "1 / N" when it returns only if the first image is the
\* one already displayed or the browser has no decode(); otherwise the
\* decode of the first image is pending and the counter keeps its old text,
\* and it reads "1 / N" once a pending decode has settled with the session
\* still at index 0.
C1_OpenThenCounter ==
  [][/\ \A key \in CallKeys :
          (~modalActive /\ IsCatalogKey(key) /\ CallOpenGallery(key)) =>
            LET images == portfolioData[key.v].images IN
            /\ modalActive'
            /\ currentGallery' = images
            /\ currentImageIndex' = 0
            /\ IF hasDecode /\ mainSrc # images[1]
                 THEN /\ decoding' = Append(decoding, images[1])
                      /\ counterText' = counterText
                 ELSE counterText' = FirstOf(images)
     /\ (modalActive /\ currentImageIndex = 0 /\ last'.op \in DecodeOps) =>
            counterText' = FirstOf(currentGallery)]_vars

\* openGallery("ever") has just returned from Closed with the decode of the
\* first image pending and the counter not yet reading "1 / 3"
C1_Witness ==
  /\ last.op = "openGallery" /\ last.logged = << >> /\ ~last.wasActive
  /\ modalActive
  /\ currentGallery = portfolioData["ever"].images
  /\ currentImageIndex = 0
  /\ decoding = <<"Photos/EVER/1.webp">>
  /\ counterText # "1 / 3"

\* C2: no Closed state keeps the page scroll locked: whenever the lightbox
\* is hidden, whichever handler closed it and whatever navigation came
\* before, document.body.style.overflow is not 'hidden'.
C2_ClosedReleasesScroll ==
  ~modalActive => bodyOverflow = ""

\* pagehide closed a lightbox that was open on a later image
C2_Witness ==
  /\ last.op = "pagehide" /\ last.wasActive
  /\ ~modalActive /\ bodyOverflow = ""
  /\ currentImageIndex = 2

\* C3: a click on a project card while the lightbox is open changes neither
\* the session (currentGallery, currentImageIndex) nor the title, the
\* displayed image, the counter, the thumbnails or the pending decodes.
C3_OpenIgnoredWhileOpen ==
  [][\A attr \in CardKeys :
       (modalActive /\ ClickProject(attr)) =>
         /\ modalActive'
         /\ UNCHANGED <<currentGallery, currentImageIndex, galleryTitle,
                        mainSrc, counterText, thumbs, decoding,
                        bodyOverflow>>]_vars

\* a card was clicked while the lightbox showed the second image
C3_Witness ==
  /\ last.op = "click-project" /\ last.wasActive
  /\ modalActive /\ currentImageIndex = 1

C5_UnknownIdLogsOnce ==
  [][\A key \in CallKeys :
       (~modalActive /\ ~IsCatalogKey(key) /\ CallOpenGallery(key)) =>
         /\ ~modalActive'
         /\ Len(last'.logged) = 1]_vars

\* openGallery("does-not-exist") has just returned on a closed lightbox
C5_Witness ==
  /\ last.op = "openGallery" /\ ~last.wasActive
  /\ last.logged = <<"Project not found:">>
  /\ ~modalActive

\* C6: an openGallery(id) that fails validation (empty or non-string id, id
\* absent from the catalog, entry without an image list) changes neither
\* the session nor the title, the lightbox visibility, the scroll lock or
\* the view, and raises no uncaught error.
C6_FailedOpenChangesNothing ==
  [][\A key \in CallKeys :
       (~IsCatalogKey(key) /\ CallOpenGallery(key)) =>
         /\ UNCHANGED <<currentGallery, currentImageIndex, galleryTitle,
                        modalActive, bodyOverflow, mainSrc, counterText,
                        thumbs, decoding>>
         /\ ~last'.threw]_vars

\* openGallery was called with a key whose entry has no image list while
\* another project was open on its third image
C6_Witness ==
  /\ last.op = "openGallery" /\ last.wasActive
  /\ last.logged = <<"Project has no images:">>
  /\ modalActive /\ currentImageIndex = 2

\* C7 as stated: with the lightbox open, goToImage(i) for i outside
\* [0, currentGallery.length) changes neither currentImageIndex nor currentGallery, the displayed
\* image, the counter or what is being decoded.
C7_GoToOutOfRangeIsNoOp ==
  [][\A i \in MinGoTo..MaxGoTo :
       (modalActive /\ (i < 0 \/ i >= Len(currentGallery))
          /\ CallGoToImage(i)) =>
         UNCHANGED <<currentImageIndex, currentGallery, mainSrc, counterText,
                     decoding>>]_vars

\* C8: with the lightbox open on N images, nextImage sets currentImageIndex
\* to (currentImageIndex + 1) mod N and prevImage sets it to
\* (currentImageIndex - 1 + N) mod N, and neither changes currentGallery.
C8_NavigationWraps ==
  [][/\ (modalActive /\ last'.op \in NextOps) =>
          /\ currentImageIndex' =
               (currentImageIndex + 1) % Len(currentGallery)
          /\ currentGallery' = currentGallery
     /\ (modalActive /\ last'.op \in PrevOps) =>
          /\ currentImageIndex' =
               (currentImageIndex - 1 + Len(currentGallery)) % Len(currentGallery)
          /\ currentGallery' = currentGallery]_vars

\* next has just wrapped from the last image to the first one
C8_Witness ==
  /\ modalActive /\ last.op \in NextOps /\ last.wasActive
  /\ before = Len(currentGallery) - 1
  /\ currentImageIndex = 0

\* C9: with the lightbox open on N images, after N nextImage calls in a row
\* currentImageIndex is what it was before the first of them.
C9_CyclicLaw ==
  (modalActive /\ runLen >= 1 /\ runLen = Len(currentGallery)) =>
    currentImageIndex = runStart

\* three nextImage calls in a row on a 3-image project, begun at index 1
C9_Witness ==
  /\ modalActive /\ Len(currentGallery) = 3
  /\ runLen = 3 /\ runStart = 1
  /\ currentImageIndex = 1

\* C10: with the lightbox open, a prevImage call that follows a nextImage
\* call restores the currentImageIndex the nextImage call found, and
\* currentGallery is the same throughout.
C10_PrevUndoesNext ==
  [][(modalActive /\ last.op \in NextOps /\ last.wasActive
        /\ last'.op \in PrevOps) =>
       /\ currentImageIndex' = before
       /\ currentGallery' = currentGallery]_vars

\* next from the last image wrapped to the first, and prev went back
C10_Witness ==
  /\ modalActive /\ last.op \in PrevOps /\ last.afterNext
  /\ before = 0
  /\ currentImageIndex = Len(currentGallery) - 1

\* C11: while the lightbox is closed, an Escape, ArrowLeft or ArrowRight key
\* press and a click on the backdrop change neither the session
\* (currentGallery, currentImageIndex) nor the displayed image, the counter,
\* the pending decodes, the thumbnails or the scroll lock, and the
\* lightbox stays closed.
C11_ClosedIgnoresKeysAndBackdrop ==
  [][(~modalActive /\ (\/ \E key \in {"Escape", "ArrowLeft", "ArrowRight"} :
                            KeyDown(key)
                       \/ ClickBackdrop)) =>
       /\ ~modalActive'
       /\ UNCHANGED <<currentGallery, currentImageIndex, mainSrc, counterText,
                      decoding, thumbs, bodyOverflow>>]_vars

\* ArrowRight was pressed on a closed lightbox whose last session had
\* stopped at the second image
C11_Witness ==
  /\ last.op = "ignored-ArrowRight" /\ ~last.wasActive
  /\ ~modalActive /\ bodyOverflow = ""
  /\ Len(currentGallery) = 3 /\ currentImageIndex = 1

\* C12: on a page where one of the lightbox elements (modal, title, main
\* image, counter, thumbnail strip) is missing, no gallery operation
\* activates the lightbox, locks the scroll or ends in an uncaught error.
C12_MissingSurfaceDisablesGallery ==
  (SurfaceHooks \ DOM # {}) =>
    (~modalActive /\ bodyOverflow = "" /\ ~last.threw)

\* the source the main image would carry if it showed the current image
CurrentSrc == ToAttr(ImageAt(currentGallery, currentImageIndex))

\* C13: pending decodes are never cancelled: no click, key press or
\* pagehide removes one, and a continuation that settles after the user has
\* moved on to another image still writes its own image over the displayed
\* one. The state this leads to (lightbox open, nothing pending, displayed
\* image not the current one) is C13_Witness.
C13_StaleContinuationOverwrites ==
  [][/\ last'.op \notin DecodeOps =>
          /\ Len(decoding') >= Len(decoding)
          /\ SubSeq(decoding', 1, Len(decoding)) = decoding
     /\ \A k \in 1..Len(decoding), outcome \in {"resolved", "rejected"} :
          (DecodeSettle(k, outcome) /\ modalActive /\ decoding[k] # CurrentSrc)
            => /\ mainSrc' = decoding[k]
               /\ mainSrc' # CurrentSrc'
               /\ modalActive']_vars

\* the last pending decode has settled and left an image of the open
\* project on display that is not the one at currentImageIndex
C13_Witness ==
  /\ modalActive /\ decoding = << >> /\ last.op \in DecodeOps
  /\ currentImageIndex \in 0..(Len(currentGallery) - 1)
  /\ mainSrc # CurrentSrc
  /\ \E j \in 1..Len(currentGallery) : mainSrc = currentGallery[j]

\* C14: when decodes settle in the order in which they were started, the
\* lightbox, whenever it is open with no decode pending, displays the image
\* at currentImageIndex.
C14_InOrderShowsCurrent ==
  (modalActive /\ decoding = << >>) => mainSrc = CurrentSrc

\* C15: whenever the lightbox is open, exactly one thumbnail carries the
\* 'active' class and it is the one at currentImageIndex.
C15_OneThumbnailHighlighted ==
  modalActive =>
    /\ currentImageIndex \in 0..(Len(thumbs) - 1)
    /\ \A k \in 1..Len(thumbs) :
         thumbs[k].active <=> (k - 1 = currentImageIndex)

\* a step in which the page opens a project or moves to another image, so
\* that updateGalleryImage renders the session of the next state
Navigates ==
  \/ ClickNext
  \/ ClickPrev
  \/ \E k \in 1..Len(thumbs) : ClickThumbnail(k)
  \/ modalActive /\ (KeyDown("ArrowLeft") \/ KeyDown("ArrowRight"))
Opens == ~modalActive /\ modalActive' /\ \E attr \in CardKeys : ClickProject(attr)

\* C16 as stated: after a navigation to an image that is not displayed, the
\* main image keeps its source until the decode of that image (the newest
\* pending one) settles.
C16_KeepsSourceUntilOwnDecode ==
  [][(hasDecode /\ decoding # << >> /\ mainSrc' # mainSrc) =>
       /\ decoding' = SubSeq(decoding, 1, Len(decoding) - 1)
       /\ mainSrc' = decoding[Len(decoding)]]_vars

\* C16, amended: where the browser has a decode primitive, the source of
\* the main image changes only when a decode settles, and to the image that
\* decode was for (the newest or an older pending one); a navigation or an
\* open whose target is not the displayed image leaves the source as it is
\* and queues a decode of the target. Without the primitive the same step
\* writes the target at once.
C16_SwapOnlyAfterDecode ==
  [][/\ (hasDecode /\ mainSrc' # mainSrc) =>
          /\ last'.op \in DecodeOps
          /\ \E k \in 1..Len(decoding) : mainSrc' = decoding[k]
     /\ ((Navigates \/ Opens) /\ CurrentSrc' # mainSrc) =>
          IF hasDecode
            THEN mainSrc' = mainSrc /\ decoding' = Append(decoding, CurrentSrc')
            ELSE mainSrc' = CurrentSrc' /\ decoding' = decoding]_vars

\* next has moved the session off the displayed image: the old image is
\* still displayed and the decode of the new one is pending
C16_Witness ==
  /\ hasDecode /\ modalActive /\ last.op \in NextOps /\ last.wasActive
  /\ mainSrc # "" /\ mainSrc # CurrentSrc
  /\ decoding = <<CurrentSrc>>

\* C17: a navigation or an open whose target image is already the source
\* of the main image starts no decode and leaves the source alone; it
\* writes the counter text for the new index and, on a navigation, moves
\* the 'active' class to the thumbnail of the new index and changes nothing
\* else of the strip.
C17_SameSourceShortcut ==
  [][((Navigates \/ Opens) /\
        ImageAt(currentGallery', currentImageIndex') = mainSrc) =>
       /\ mainSrc' = mainSrc
       /\ decoding' = decoding
       /\ counterText' = ToString(currentImageIndex' + 1) \o " / " \o
                            ToString(Len(currentGallery'))
       /\ Navigates =>
            thumbs' = [k \in 1..Len(thumbs) |->
                         [src |-> thumbs[k].src,
                          active |-> (k - 1 = currentImageIndex')]]]_vars

\* a navigation has just returned to the image that was still displayed
\* while the decode of another image is pending: it started no decode of
\* its own and wrote the counter
C17_Witness ==
  /\ hasDecode /\ modalActive /\ last.wasActive
  /\ last.op \in NextOps \cup PrevOps \cup {"click-thumbnail"}
  /\ mainSrc = CurrentSrc
  /\ Len(decoding) = 1 /\ decoding[1] # CurrentSrc
  /\ counterText = ToString(currentImageIndex + 1) \o " / " \o
                      ToString(Len(currentGallery))

\* C18: every decode that settles, resolved or rejected, puts its image
\* into the main image, writes the counter for the index the session has
\* at that moment, leaves the pending list one shorter and raises no error.
C18_SettledDecodeSwaps ==
  [][\A k \in 1..Len(decoding), outcome \in {"resolved", "rejected"} :
       DecodeSettle(k, outcome) =>
         /\ mainSrc' = decoding[k]
         /\ Len(decoding') = Len(decoding) - 1
         /\ ~last'.threw
         /\ currentImageIndex \in 0..(Len(currentGallery) - 1) =>
              counterText' = ToString(currentImageIndex + 1) \o " / " \o
                               ToString(Len(currentGallery))]_vars

\* the only pending decode was rejected and the lightbox shows its image
\* and the counter all the same
C18_Witness ==
  /\ last.op = "decode-rejected" /\ ~last.threw
  /\ modalActive /\ decoding = << >>
  /\ currentImageIndex = 2 /\ mainSrc = "Photos/EVER/C.webp"
  /\ counterText = "3 / 3"

\* the image locations of the thumbnails, in strip order
StripSources == [k \in 1..Len(thumbs) |-> thumbs[k].src]

\* C19: an open leaves in the strip exactly one thumbnail per image of the
\* opened project, in catalog order, and the strip stays so while the
\* lightbox is open; a click on the thumbnail at position k (counted from
\* 0) makes k the current index.
C19_StripMatchesProject ==
  [][/\ Opens => (currentGallery' # << >> /\ StripSources' = currentGallery')
     /\ modalActive' => StripSources' = currentGallery'
     /\ \A k \in 1..Len(thumbs) :
          ClickThumbnail(k) =>
            (currentImageIndex' = k - 1 /\ thumbs'[k].active)]_vars

\* a project has just been opened while the main image still shows an
\* image of the project opened before it
C19_Witness ==
  /\ last.op = "click-project" /\ ~last.wasActive /\ modalActive
  /\ mainSrc # ""
  /\ \A j \in 1..Len(currentGallery) : mainSrc # currentGallery[j]
  /\ Len(thumbs) = 3 /\ StripSources = currentGallery

\* C20: whenever the lightbox is open and no decode is pending, the counter
\* reads "<currentImageIndex + 1> / <number of images>", whatever image
\* the main image shows.
C20_CounterMatchesIndex ==
  (modalActive /\ decoding = << >>) =>
    counterText = ToString(currentImageIndex + 1) \o " / " \o
                    ToString(Len(currentGallery))

\* a stale continuation ran last: the image on display is not the
\* current one, the counter is that of the current index
C20_Witness ==
  /\ modalActive /\ decoding = << >> /\ last.op \in DecodeOps
  /\ currentImageIndex = 1 /\ counterText = "2 / 3"
  /\ mainSrc # CurrentSrc /\ mainSrc # ""

\* the functions waiting in a queue of the layout scheduler
LayoutQueued ==
  {readQueue[k].id : k \in 1..Len(readQueue)} \cup
  {writeQueue[k].id : k \in 1..Len(writeQueue)}

\* C21: every function passed to scheduleRead or scheduleWrite, from
\* outside or from inside a running callback, is either still queued with a
\* frame requested or has been called, and none is called twice.
C21_EveryFunctionRunsOnce ==
  /\ \A id \in 1..layoutMade :
       \/ id \in LayoutQueued /\ layoutRequests > 0
       \/ \E k \in 1..Len(layoutRan) : layoutRan[k] = id
  /\ \A j, k \in 1..Len(layoutRan) : layoutRan[j] = layoutRan[k] => j = k

\* C22: once both scripts have added their listener to the play buttons,
\* a click on a play button toggles its video once: a paused video is
\* playing afterwards and a playing video is paused.
C22_ClickTogglesOnce ==
  [][\A v \in Videos :
       (Len(clickListeners) = 2 /\ ClickPlayButton(v)) =>
         videoPaused'[v] = ~videoPaused[v]]_vars

\* the ids of a sequence of callbacks
RafIds(cbs) == [k \in 1..Len(cbs) |-> cbs[k].id]

\* at most one frame is requested, rafId tells whether one is, a queued
\* callback has a frame requested, and the callbacks called so far
\* followed by those queued are callbacks 1, 2, ... in the order made
RafSafe ==
  /\ rafRequests <= 1
  /\ (rafId # 0) <=> (rafRequests = 1)
  /\ rafCallbacks # << >> => rafRequests = 1
  /\ RafIds(rafRan) \o RafIds(rafCallbacks) = [k \in 1..rafMade |-> k]

\* C23: scheduleRAF keeps at most one frame request pending, every
\* callback passed to it (from outside or from a callback being flushed)
\* is called exactly once and in the order passed, and a queued callback
\* is called eventually: the queue is empty again and again, and by
\* RafSafe every callback made has then been called.
C23_RafRunsEachOnceInOrder ==
  /\ []RafSafe
  /\ []<>(rafCallbacks = << >> /\ Len(rafRan) = rafMade)

\* a callback passed to scheduleRAF by a callback that was being flushed
\* has been called, after the callback that passed it
C23_Witness ==
  /\ rafCallbacks = << >> /\ rafId = 0 /\ rafRequests = 0
  /\ \E j, k \in 1..Len(rafRan) :
       j < k /\ rafRan[j].kind = "raf" /\ rafRan[k].nested

====
